---- MODULE Spec2Model ----
(***************************************************************************)
(* Order fulfilment and payment settlement of the point-of-sale backend:   *)
(* the two checkout routes (POST /api/invoices, POST /api/sales) and the   *)
(* two confirmation routes (POST /api/invoices/verify-payment,             *)
(* POST /api/sales/verify-payment), over the Product and Sale collections  *)
(* and the payment gateway.  Every await of a handler is a point where     *)
(* other requests may run, so each handler is cut into one action per      *)
(* database or gateway round trip.                                         *)
(***************************************************************************)
EXTENDS Integers, Sequences, FiniteSets, TLC

\* ------------------------------------------------------------------ bounds

\* Stock every product starts with.
MaxStock == 5
\* Largest quantity of a line item.
MaxQty == 3
\* Last value of the millisecond clock.
MaxClock == 1
\* Requests of the settlement specification (checkouts and confirmations).
MaxRequests == 3

\* ------------------------------------------------------------- collections

\* _ids of the Product collection.
Products == {"p1", "p2"}
\* A well-formed ObjectId that names no product.
NoSuchProduct == "p0"
ProductIds == Products \cup {NoSuchProduct}

\* _ids of the Customer collection, and an ObjectId naming no customer.
Customers == {"c1"}
NoCustomer == "none"
NoSuchCustomer == "c0"

\* null of a string field, and a request's invoice id before it is generated.
NoId == <<>>
NoInvoiceId == [scheme |-> "", at |-> 0]

Quantities == {1, MaxQty}
\* Money is counted in thousandths of a rupee, which are tenths of a paisa: 1000 is
\* one rupee, 10 is one paisa.
\* Price of one unit, as the till sends it: 0.334 and 0.5 rupees.
Price(p) == IF p = "p1" THEN 334 ELSE 500
\* Name of a product, as the catalog has it when the server starts.
Name(p) == IF p = "p1" THEN "Paracetamol" ELSE "Ibuprofen"
\* A line item of a request body; its total is quantity times price.
Item(p, q) ==
    [productId |-> p, name |-> Name(p), quantity |-> q, price |-> Price(p),
     total |-> q * Price(p)]
Items == {Item(p, q) : p \in ProductIds, q \in Quantities}
\* Carts of one or two line items.
Carts == {<<it>> : it \in Items} \cup {<<a, b>> : a \in Items, b \in Items}
\* The tills of the shop; each has at most one request in flight.
Tills == {"till1", "till2"}
\* Carts of the settlement specification: one that empties the shelf after a
\* sale, one that names a missing product.
SmallCarts == {<<Item("p1", MaxQty)>>, <<Item(NoSuchProduct, 1)>>}
\* Carts no checkout should accept: no line, a quantity of zero, a negative
\* quantity, a negative price.
InvalidCarts ==
    {<<>>,
     <<[Item("p1", 1) EXCEPT !.quantity = 0, !.total = 0]>>,
     <<[Item("p1", 1) EXCEPT !.quantity = -1, !.total = -Price("p1")]>>,
     <<[Item("p1", 1) EXCEPT !.price = -1, !.total = -1]>>}
\* What a body's totalAmount is above the sum of its line totals: a till that adds
\* up right, and one that does not.
ExactAmount == {0}
AnyAmount == {0, 1}

\* Ids are strings, written as sequences of characters.
DigitChars == <<"1", "2", "3", "4", "5", "6", "7", "8", "9">>
PaymentIds == {<<"x">>, <<"y">>}
\* An order of this shop that no checkout opened (POST /api/razorpay/create-order
\* opens orders without a Sale); the gateway signs payments for it all the same.
ForeignOrderId == <<"o", "0">>
\* An invoice id no sale carries.
UnknownInvoiceId == [scheme |-> "GEN", at |-> -1]
\* RAZORPAY_KEY_SECRET.
Secret == "k"
\* A signature made without the secret.
TamperedSignature == <<"t">>

VARIABLES
    stock,      \* Product collection: _id -> stock
    catalog,    \* Product collection: _id -> name, price, whether the document exists
    sales,      \* Sale collection, in insertion order
    intents,    \* orders the payment gateway has created, in creation order
    now,        \* the last value Date.now() returned
    reqs        \* the requests received so far, each with its handler's locals

vars == <<stock, catalog, sales, intents, now, reqs>>

\* ------------------------------------------------------------------ helpers

Range(s) == {s[k] : k \in DOMAIN s}

\* Math.round of a number of paise: the nearest whole paisa, halves upwards.
MathRound(amount) == ((amount + 5) \div 10) * 10

MathMax(a, b) == IF a >= b THEN a ELSE b

\* Math.max(Math.round(totalAmount * 100), 100), the amount of POST /api/invoices.
orderAmountPaise(totalAmount) == MathMax(MathRound(totalAmount), 1000)

\* totalAmount * 100, the amount of POST /api/sales: the paise, with their fraction.
SaleOrderAmount(totalAmount) == totalAmount

RECURSIVE SumTotals(_)
\* items.reduce((sum, item) => sum + item.total, 0)
SumTotals(items) ==
    IF items = <<>> THEN 0 ELSE Head(items).total + SumTotals(Tail(items))

\* Id of the n-th order the gateway creates.
GatewayOrderId(n) == <<"o", DigitChars[n]>>

\* Invoice id of POST /api/sales.
SaleInvoiceId(t) == [scheme |-> "INV", at |-> t]

\* Invoice id of POST /api/invoices.
generateInvoiceId(t) == [scheme |-> "GEN", at |-> t]

\* createHmac('sha256', secret).update(msg).digest('hex'): a keyed hash, taken to
\* be free of collisions.
Hmac(key, msg) == <<"hmac", key>> \o msg

\* `${orderId}|${paymentId}`
SignedBody(orderId, paymentId) == orderId \o <<"|">> \o paymentId

verifyPaymentSignature(orderId, paymentId, signature) ==
    Hmac(Secret, SignedBody(orderId, paymentId)) = signature

RECURSIVE CommonPrefix(_, _)
\* Number of leading characters two strings share.
CommonPrefix(a, b) ==
    IF a = <<>> \/ b = <<>> \/ Head(a) # Head(b) THEN 0
    ELSE 1 + CommonPrefix(Tail(a), Tail(b))

\* The numbers of character comparisons a === b of two strings can take.  The
\* language fixes the result of ===, not its work: strings of different lengths are
\* told apart by their lengths; strings of one length are compared character by
\* character, up to the first difference or, in another engine, to the end.
StrictEqualsSteps(a, b) ==
    IF Len(a) # Len(b) THEN {0}
    ELSE IF a = b THEN {Len(a)}
    ELSE {CommonPrefix(a, b) + 1, Len(a)}

\* A request whose handler has compared no signature.
NotCompared == -1

\* process.env.RAZORPAY_KEY_SECRET, the string ENV.RAZORPAY_KEY_SECRET is parsed from.
ProcessEnvSecret == Secret

\* expectedSignature of POST /api/sales/verify-payment without the separator.
SaleExpectedSignatureNoSeparator(orderId, paymentId) ==
    Hmac(ProcessEnvSecret, orderId \o paymentId)

\* expectedSignature of POST /api/sales/verify-payment: the digest of
\* razorpay_order_id + '|' + razorpay_payment_id.
SaleExpectedSignature(orderId, paymentId) ==
    Hmac(ProcessEnvSecret, (orderId \o <<"|">>) \o paymentId)

\* generated_signature of POST /api/razorpay/verify-payment.
RzpGeneratedSignature(orderId, paymentId) ==
    Hmac(Secret, orderId \o <<"|">> \o paymentId)

NoPayload ==
    [razorpay_order_id |-> NoId, razorpay_payment_id |-> NoId,
     razorpay_signature |-> NoId, invoiceId |-> NoInvoiceId]

\* A field a JSON body does not carry.
Undefined == "undefined"

\* ENV.NODE_ENV of a deployed server.
NodeEnv == "production"

\* Messages of the errors a handler can catch: the gateway's, the store's.
GatewayErrorMessage == "razorpay: request failed"
DuplicateKeyMessage == "E11000 duplicate key error collection: sales index: invoiceId_1"

\* new AppError(message, statusCode, details)
AppError(message, statusCode, details) ==
    [name |-> "AppError", message |-> message, statusCode |-> statusCode,
     details |-> details]

\* The global error handler: status and body of the response to an error passed to
\* next().
errorHandler(err) ==
    IF err.name = "AppError"
    THEN [status |-> err.statusCode, error |-> err.message, details |-> err.details]
    ELSE [status |-> 500, error |-> "Server error",
          details |-> IF NodeEnv = "development" THEN err.message ELSE Undefined]

\* The payment fields of a Sale document as a handler read them.
NoRead ==
    [status |-> "", paymentStatus |-> "", razorpayPaymentId |-> NoId,
     razorpaySignature |-> NoId]

\* The fields of a Product document as a handler read them.
NoProduct == [name |-> "", price |-> 0, stock |-> 0]

\* Handler locals of a request that has not read anything yet.
NewReq(kind, customer, items, method) ==
    [kind |-> kind, customerId |-> customer, items |-> items,
     totalAmount |-> 0, paymentMethod |-> method, pc |-> "find", i |-> 1, doc |-> 0,
     invoiceId |-> NoInvoiceId, razorpayOrderId |-> NoId,
     payload |-> NoPayload, found |-> 0, read |-> NoRead, result |-> "none",
     details |-> Undefined,  \* details of the response body
     compared |-> NotCompared,  \* character comparisons of the signature check
     id |-> "", updateData |-> <<>>, product |-> NoProduct,  \* of the product routes
     exact |-> TRUE]  \* each save so far lowered the stored stock by its line's quantity

\* A request that has been answered: the handler's locals are gone; the kind of
\* request, the items it asked for and the response remain.
Answered(req, res) ==
    [NewReq(req.kind, NoCustomer, req.items, "")
        EXCEPT !.pc = "done", !.i = 0, !.result = res, !.compared = req.compared]

\* Requests whose handler has not answered yet.
InFlight == {r \in DOMAIN reqs : reqs[r].pc # "done"}

\* A till sends one request at a time; limit bounds the requests of a run.
MayStart(limit) ==
    /\ Len(reqs) < limit
    /\ Cardinality(InFlight) < Cardinality(Tills)

\* The response is sent.
Respond(r, res) ==
    reqs' = [reqs EXCEPT ![r] = Answered(reqs[r], res)]

\* The response is sent by a handler whose signature check took n comparisons.
RespondCompared(r, res, n) ==
    reqs' = [reqs EXCEPT ![r] = Answered([reqs[r] EXCEPT !.compared = n], res)]

\* InsertOk of a collection without the unique index.
InsertOkNoIndex(doc) == TRUE

\* The catch block of the invoices routes: next(new AppError("Server error", 500,
\* error.message)), answered by the error handler.
RespondCaught(r, message) ==
    reqs' = [reqs EXCEPT ![r] =
               [Answered(reqs[r], "ServerError") EXCEPT
                  !.details = errorHandler(AppError("Server error", 500, message)).details]]

\* Insert into the Sale collection; invoiceId carries a unique index.
InsertOk(doc) == \A s \in Range(sales) : s.invoiceId # doc.invoiceId

\* NewSale without the gateway's order id.
NewSaleNoOrderId(r, status, paymentStatus, method) ==
    [invoiceId |-> reqs[r].invoiceId,
     customerId |-> reqs[r].customerId,
     items |-> reqs[r].items,
     totalAmount |-> reqs[r].totalAmount,
     status |-> status,
     paymentStatus |-> paymentStatus,
     paymentMethod |-> method,
     razorpayOrderId |-> NoId,
     razorpayPaymentId |-> NoId,
     razorpaySignature |-> NoId,
     req |-> r,
     writes |-> 0]

NewSale(r, status, paymentStatus, method) ==
    [invoiceId |-> reqs[r].invoiceId,
     customerId |-> reqs[r].customerId,
     items |-> reqs[r].items,
     totalAmount |-> reqs[r].totalAmount,
     status |-> status,
     paymentStatus |-> paymentStatus,
     paymentMethod |-> method,
     razorpayOrderId |-> reqs[r].razorpayOrderId,
     razorpayPaymentId |-> NoId,
     razorpaySignature |-> NoId,
     req |-> r,      \* the request that inserted the document
     writes |-> 0]   \* update commands applied to the document since its insert

\* ---------------------------------------------------------------- the clock

\* Date.now(): the clock is only seen when it is read, so it advances at reads;
\* a read returns the last value read or a later one.
ClockReads == now .. MaxClock

\* ------------------------------------------------- checkout: stock reservation

\* FindProduct without the stock check.
FindProductNoStockCheck(r) ==
    /\ reqs[r].pc = "find"
    /\ LET item == reqs[r].items[reqs[r].i] IN
       IF item.productId \notin Products
       THEN Respond(r, "NotFound")
       ELSE reqs' = [reqs EXCEPT ![r].pc = "save",
                                 ![r].doc = stock[item.productId] - item.quantity]
    /\ UNCHANGED <<catalog, stock, sales, intents, now>>

\* FindProduct without the null check: reading product.stock of null throws, and
\* the catch block answers 500.
FindProductNoNullCheck(r) ==
    /\ reqs[r].pc = "find"
    /\ LET item == reqs[r].items[reqs[r].i] IN
       IF item.productId \notin Products
       THEN Respond(r, "ServerError")
       ELSE IF stock[item.productId] < item.quantity
       THEN Respond(r, "InsufficientStock")
       ELSE reqs' = [reqs EXCEPT ![r].pc = "save",
                                 ![r].doc = stock[item.productId] - item.quantity]
    /\ UNCHANGED <<catalog, stock, sales, intents, now>>

\* Product.findById, the two checks and the in-memory decrement.
FindProduct(r) ==
    /\ reqs[r].pc = "find"
    /\ LET item == reqs[r].items[reqs[r].i] IN
       IF item.productId \notin Products \/ ~catalog[item.productId].exists
       THEN Respond(r, "NotFound")
       ELSE IF stock[item.productId] < item.quantity
       THEN Respond(r, "InsufficientStock")
       ELSE reqs' = [reqs EXCEPT ![r].pc = "save",
                                 ![r].doc = stock[item.productId] - item.quantity]
    /\ UNCHANGED <<catalog, stock, sales, intents, now>>

\* product.save(): writes the stock computed from the value read.
SaveProduct(r, after) ==
    /\ reqs[r].pc = "save"
    /\ catalog[reqs[r].items[reqs[r].i].productId].exists
    /\ LET item == reqs[r].items[reqs[r].i] IN
       stock' = [stock EXCEPT ![item.productId] = reqs[r].doc]
    /\ reqs' = [reqs EXCEPT
                  ![r].exact =
                      LET item == reqs[r].items[reqs[r].i] IN
                      @ /\ reqs[r].doc = stock[item.productId] - item.quantity,
                  ![r].doc = 0,
                  ![r].i = IF @ < Len(reqs[r].items) THEN @ + 1 ELSE 0,
                  ![r].pc = IF reqs[r].i < Len(reqs[r].items) THEN "find" ELSE after]
    /\ UNCHANGED <<catalog, sales, intents, now>>

\* ------------------------------------------------------ POST /api/invoices

\* The validators of POST /api/invoices find an error in the items of a body.
InvoiceValidationErrors(items) ==
    \/ Len(items) < 1
    \/ \E k \in DOMAIN items :
          \/ items[k].quantity < 1
          \/ items[k].price < 0
          \/ items[k].total < 0

\* The body's totalAmount is the sum of the line totals plus one of over.
StartInvoice(carts, customers, over, limit) ==
    /\ MayStart(limit)
    /\ \E cart \in carts, customer \in customers, d \in over,
          method \in {"cash", "upi"} :
         reqs' = Append(reqs,
                   IF InvoiceValidationErrors(cart)
                   THEN Answered(NewReq("invoice", customer, cart, method),
                                 "ValidationError")
                   ELSE IF customer = NoSuchCustomer
                   THEN Answered(NewReq("invoice", customer, cart, method), "NotFound")
                   ELSE [NewReq("invoice", customer, cart, method)
                           EXCEPT !.totalAmount = SumTotals(cart) + d])
    /\ UNCHANGED <<catalog, stock, sales, intents, now>>

InvFindProduct(r) ==
    /\ reqs[r].kind = "invoice"
    /\ FindProduct(r)

InvSaveProduct(r) ==
    /\ reqs[r].kind = "invoice"
    /\ SaveProduct(r, "id")

\* generateInvoiceId(), then the branch on paymentMethod.
InvGenerateId(r) ==
    /\ reqs[r].kind = "invoice"
    /\ reqs[r].pc = "id"
    /\ \E t \in ClockReads :
         /\ now' = t
         /\ reqs' = [reqs EXCEPT ![r].invoiceId = generateInvoiceId(t),
                                 ![r].pc = IF reqs[r].paymentMethod = "cash"
                                           THEN "insert" ELSE "gateway"]
    /\ UNCHANGED <<catalog, stock, sales, intents>>

\* razorpay.orders.create resolves with an order.
InvGatewayOk(r) ==
    /\ reqs[r].kind = "invoice"
    /\ reqs[r].pc = "gateway"
    /\ intents' = Append(intents, [req |-> r, receipt |-> reqs[r].invoiceId,
                                   amount |-> orderAmountPaise(reqs[r].totalAmount)])
    /\ reqs' = [reqs EXCEPT ![r].razorpayOrderId = GatewayOrderId(Len(intents) + 1),
                            ![r].pc = "insert"]
    /\ UNCHANGED <<catalog, stock, sales, now>>

\* razorpay.orders.create rejects (error or timeout): the catch block answers 500.
InvGatewayFail(r) ==
    /\ reqs[r].kind = "invoice"
    /\ reqs[r].pc = "gateway"
    /\ RespondCaught(r, GatewayErrorMessage)
    /\ UNCHANGED <<catalog, stock, sales, intents, now>>

\* InvInsert storing a cash invoice as pending/pending.
InvInsertCashPending(r) ==
    /\ reqs[r].kind = "invoice"
    /\ reqs[r].pc = "insert"
    /\ LET doc == IF reqs[r].paymentMethod = "cash"
                  THEN NewSale(r, "pending", "pending", "cash")
                  ELSE NewSale(r, "pending", "pending", "upi") IN
       IF InsertOk(doc)
       THEN /\ sales' = Append(sales, doc)
            /\ Respond(r, "Created")
       ELSE /\ sales' = sales
            /\ RespondCaught(r, DuplicateKeyMessage)
    /\ UNCHANGED <<catalog, stock, intents, now>>

\* invoice.save(): cash invoices are completed/paid, upi invoices pending/pending.
InvInsert(r) ==
    /\ reqs[r].kind = "invoice"
    /\ reqs[r].pc = "insert"
    /\ LET doc == IF reqs[r].paymentMethod = "cash"
                  THEN NewSale(r, "completed", "paid", "cash")
                  ELSE NewSale(r, "pending", "pending", "upi") IN
       IF InsertOk(doc)
       THEN /\ sales' = Append(sales, doc)
            /\ Respond(r, "Created")
       ELSE /\ sales' = sales
            /\ RespondCaught(r, DuplicateKeyMessage)
    /\ UNCHANGED <<catalog, stock, intents, now>>

\* --------------------------------------------------------- POST /api/sales

StartSale(carts, customers, limit) ==
    /\ MayStart(limit)
    /\ \E cart \in carts, customer \in customers :
         reqs' = Append(reqs,
                   IF cart = <<>>
                   THEN [NewReq("sale", customer, cart, "upi")
                           EXCEPT !.pc = "gateway", !.i = 0]
                   ELSE NewReq("sale", customer, cart, "upi"))
    /\ UNCHANGED <<catalog, stock, sales, intents, now>>

SaleFindProduct(r) ==
    /\ reqs[r].kind = "sale"
    /\ FindProduct(r)

SaleSaveProduct(r) ==
    /\ reqs[r].kind = "sale"
    /\ SaveProduct(r, "gateway")

\* totalAmount is added up from the line totals; razorpay.orders.create resolves.
SaleGatewayOk(r) ==
    /\ reqs[r].kind = "sale"
    /\ reqs[r].pc = "gateway"
    /\ intents' = Append(intents,
                        [req |-> r, receipt |-> NoInvoiceId,
                         amount |-> SaleOrderAmount(SumTotals(reqs[r].items))])
    /\ reqs' = [reqs EXCEPT ![r].totalAmount = SumTotals(reqs[r].items),
                            ![r].razorpayOrderId = GatewayOrderId(Len(intents) + 1),
                            ![r].pc = "id"]
    /\ UNCHANGED <<catalog, stock, sales, now>>

SaleGatewayFail(r) ==
    /\ reqs[r].kind = "sale"
    /\ reqs[r].pc = "gateway"
    /\ Respond(r, "ServerError")
    /\ UNCHANGED <<catalog, stock, sales, intents, now>>

SaleGenerateId(r) ==
    /\ reqs[r].kind = "sale"
    /\ reqs[r].pc = "id"
    /\ \E t \in ClockReads :
         /\ now' = t
         /\ reqs' = [reqs EXCEPT ![r].invoiceId = SaleInvoiceId(t), ![r].pc = "insert"]
    /\ UNCHANGED <<catalog, stock, sales, intents>>

\* Sale.create(saleData).
SaleInsert(r) ==
    /\ reqs[r].kind = "sale"
    /\ reqs[r].pc = "insert"
    /\ LET doc == NewSale(r, "pending", "pending", "upi") IN
       IF InsertOk(doc)
       THEN /\ sales' = Append(sales, doc)
            /\ Respond(r, "Created")
       ELSE /\ sales' = sales
            /\ Respond(r, "ServerError")
    /\ UNCHANGED <<catalog, stock, intents, now>>

\* ---------------------------------------------------------- confirmations

\* The order ids and invoice ids a caller can put into a confirmation.
KnownOrderIds == {GatewayOrderId(n) : n \in DOMAIN intents} \cup {ForeignOrderId}
KnownInvoiceIds == {s.invoiceId : s \in Range(sales)} \cup {UnknownInvoiceId}

\* Confirmation payloads: signed by the gateway for the ids they carry, or tampered
\* (what a tampered payload names besides the invoice is never stored).
Payloads ==
    {[razorpay_order_id |-> o, razorpay_payment_id |-> p,
      razorpay_signature |-> Hmac(Secret, SignedBody(o, p)), invoiceId |-> inv] :
        o \in KnownOrderIds, p \in PaymentIds, inv \in KnownInvoiceIds} \cup
    {[razorpay_order_id |-> o, razorpay_payment_id |-> <<"x">>,
      razorpay_signature |-> TamperedSignature, invoiceId |-> inv] :
        o \in KnownOrderIds, inv \in KnownInvoiceIds}

\* A key that is not the shop's.
OtherSecret == "j"

\* What a caller can put into razorpay_signature for order o and payment p: the
\* gateway's signature, its signature for another payment or another order, a
\* digest of the ids without the separator, a digest under another key, and a
\* string that is no digest.
SignaturesFor(o, p) ==
    {Hmac(Secret, SignedBody(o2, p2)) : o2 \in KnownOrderIds, p2 \in PaymentIds} \cup
    {Hmac(Secret, o \o p), Hmac(OtherSecret, SignedBody(o, p)), TamperedSignature}

\* Confirmation bodies with any of these signatures.
SignaturePayloads ==
    UNION {{[razorpay_order_id |-> o, razorpay_payment_id |-> <<"x">>,
             razorpay_signature |-> sig, invoiceId |-> inv] :
               sig \in SignaturesFor(o, <<"x">>), inv \in KnownInvoiceIds} :
           o \in KnownOrderIds}

\* A body without razorpay_signature.
UnsignedPayload ==
    [razorpay_order_id |-> ForeignOrderId, razorpay_payment_id |-> <<"x">>,
     razorpay_signature |-> NoId, invoiceId |-> UnknownInvoiceId]

\* Index of the first Sale document a filter matches, 0 when none does.
FindOne(field, value) ==
    IF \E k \in DOMAIN sales : sales[k][field] = value
    THEN CHOOSE k \in DOMAIN sales :
            /\ sales[k][field] = value
            /\ \A j \in DOMAIN sales : sales[j][field] = value => k <= j
    ELSE 0

PaymentFields(doc) ==
    [status |-> doc.status, paymentStatus |-> doc.paymentStatus,
     razorpayPaymentId |-> doc.razorpayPaymentId,
     razorpaySignature |-> doc.razorpaySignature]

\* InvVerifyAssign without the assignment of razorpaySignature.
InvVerifyAssignNoSignature(read, payload) ==
    IF verifyPaymentSignature(payload.razorpay_order_id, payload.razorpay_payment_id,
                              payload.razorpay_signature)
    THEN [status |-> "completed", paymentStatus |-> "paid",
          razorpayPaymentId |-> payload.razorpay_payment_id,
          razorpaySignature |-> read.razorpaySignature]
    ELSE [read EXCEPT !.paymentStatus = "failed"]

\* InvVerifyAssign whose invalid branch also cancels the order.
InvVerifyAssignCancels(read, payload) ==
    IF verifyPaymentSignature(payload.razorpay_order_id, payload.razorpay_payment_id,
                              payload.razorpay_signature)
    THEN [status |-> "completed", paymentStatus |-> "paid",
          razorpayPaymentId |-> payload.razorpay_payment_id,
          razorpaySignature |-> payload.razorpay_signature]
    ELSE [read EXCEPT !.paymentStatus = "failed", !.status = "cancelled"]

\* The assignments the invoices handler makes to the document it read.
InvVerifyAssign(read, payload) ==
    IF verifyPaymentSignature(payload.razorpay_order_id, payload.razorpay_payment_id,
                              payload.razorpay_signature)
    THEN [status |-> "completed", paymentStatus |-> "paid",
          razorpayPaymentId |-> payload.razorpay_payment_id,
          razorpaySignature |-> payload.razorpay_signature]
    ELSE [read EXCEPT !.paymentStatus = "failed"]

\* document.save(): $set of the paths whose value the handler changed; nothing is
\* sent when no path changed.
SaveModified(k, read, assigned) ==
    IF assigned = read
    THEN sales' = sales
    ELSE sales' = [sales EXCEPT
           ![k].status = IF assigned.status # read.status
                         THEN assigned.status ELSE @,
           ![k].paymentStatus = IF assigned.paymentStatus # read.paymentStatus
                                THEN assigned.paymentStatus ELSE @,
           ![k].razorpayPaymentId =
                IF assigned.razorpayPaymentId # read.razorpayPaymentId
                THEN assigned.razorpayPaymentId ELSE @,
           ![k].razorpaySignature =
                IF assigned.razorpaySignature # read.razorpaySignature
                THEN assigned.razorpaySignature ELSE @,
           ![k].writes = @ + 1]

\* POST /api/invoices/verify-payment arrives.
StartInvVerify(payloads, limit) ==
    /\ MayStart(limit)
    /\ \E payload \in payloads :
         reqs' = Append(reqs, [NewReq("invVerify", NoCustomer, <<>>, "upi")
                                 EXCEPT !.payload = payload, !.i = 0,
                                        !.pc = "findInvoice"])
    /\ UNCHANGED <<catalog, stock, sales, intents, now>>

\* Sale.findOne({ invoiceId }); the handler then assigns to the document read.
InvVerifyFind(r) ==
    /\ reqs[r].kind = "invVerify"
    /\ reqs[r].pc = "findInvoice"
    /\ LET k == FindOne("invoiceId", reqs[r].payload.invoiceId) IN
       IF k = 0
       THEN Respond(r, "NotFound")
       ELSE reqs' = [reqs EXCEPT ![r].pc = "saveInvoice", ![r].found = k,
                                 ![r].read = PaymentFields(sales[k])]
    /\ UNCHANGED <<catalog, stock, sales, intents, now>>

\* InvVerifySave whose invalid branch also puts the first line's units back on the
\* shelf.
InvVerifySaveReleases(r) ==
    /\ reqs[r].kind = "invVerify"
    /\ reqs[r].pc = "saveInvoice"
    /\ LET p == reqs[r].payload
           valid == verifyPaymentSignature(p.razorpay_order_id, p.razorpay_payment_id,
                                           p.razorpay_signature)
           item == sales[reqs[r].found].items[1] IN
       /\ SaveModified(reqs[r].found, reqs[r].read, InvVerifyAssign(reqs[r].read, p))
       /\ stock' = IF valid THEN stock
                   ELSE [stock EXCEPT ![item.productId] = @ + item.quantity]
       /\ \E n \in StrictEqualsSteps(
                      Hmac(Secret, SignedBody(p.razorpay_order_id, p.razorpay_payment_id)),
                      p.razorpay_signature) :
             RespondCompared(r, IF valid THEN "Verified" ELSE "InvalidSignature", n)
    /\ UNCHANGED <<catalog, intents, now>>

\* POST /api/invoices/verify-payment: invoice.save() of either branch.
InvVerifySave(r) ==
    /\ reqs[r].kind = "invVerify"
    /\ reqs[r].pc = "saveInvoice"
    /\ LET p == reqs[r].payload
           valid == verifyPaymentSignature(p.razorpay_order_id, p.razorpay_payment_id,
                                           p.razorpay_signature) IN
       /\ SaveModified(reqs[r].found, reqs[r].read, InvVerifyAssign(reqs[r].read, p))
       /\ \E n \in StrictEqualsSteps(
                      Hmac(Secret, SignedBody(p.razorpay_order_id, p.razorpay_payment_id)),
                      p.razorpay_signature) :
             RespondCompared(r, IF valid THEN "Verified" ELSE "InvalidSignature", n)
    /\ UNCHANGED <<catalog, stock, intents, now>>

\* POST /api/sales/verify-payment arrives; its body carries no invoiceId.
StartSaleVerify(payloads, limit) ==
    /\ MayStart(limit)
    /\ \E payload \in payloads :
         /\ payload.invoiceId = UnknownInvoiceId
         /\ reqs' = Append(reqs, [NewReq("saleVerify", NoCustomer, <<>>, "upi")
                                    EXCEPT !.payload = payload, !.i = 0,
                                           !.pc = "check"])
    /\ UNCHANGED <<catalog, stock, sales, intents, now>>

\* expectedSignature === razorpay_signature
SaleVerifyCheck(r) ==
    /\ reqs[r].kind = "saleVerify"
    /\ reqs[r].pc = "check"
    /\ LET p == reqs[r].payload
           expectedSignature ==
               SaleExpectedSignature(p.razorpay_order_id, p.razorpay_payment_id) IN
       \E n \in StrictEqualsSteps(expectedSignature, p.razorpay_signature) :
          IF expectedSignature = p.razorpay_signature
          THEN reqs' = [reqs EXCEPT ![r].pc = "update", ![r].compared = n]
          ELSE RespondCompared(r, "InvalidSignature", n)
    /\ UNCHANGED <<catalog, stock, sales, intents, now>>

\* SaleVerifyUpdate whose filter matches the oldest pending order, whatever its
\* razorpayOrderId.
SaleVerifyUpdateOldestPending(r) ==
    /\ reqs[r].kind = "saleVerify"
    /\ reqs[r].pc = "update"
    /\ LET p == reqs[r].payload
           k == FindOne("status", "pending") IN
       IF k = 0
       THEN /\ sales' = sales
            /\ Respond(r, "NotFound")
       ELSE /\ sales' = [sales EXCEPT
                           ![k].razorpayPaymentId = p.razorpay_payment_id,
                           ![k].razorpaySignature = p.razorpay_signature,
                           ![k].paymentStatus = "paid",
                           ![k].status = "completed",
                           ![k].writes = @ + 1]
            /\ Respond(r, "Verified")
    /\ UNCHANGED <<catalog, stock, intents, now>>

\* POST /api/sales/verify-payment: Sale.findOneAndUpdate({ razorpayOrderId }).
SaleVerifyUpdate(r) ==
    /\ reqs[r].kind = "saleVerify"
    /\ reqs[r].pc = "update"
    /\ LET p == reqs[r].payload
           k == FindOne("razorpayOrderId", p.razorpay_order_id) IN
       IF k = 0
       THEN /\ sales' = sales
            /\ Respond(r, "NotFound")
       ELSE /\ sales' = [sales EXCEPT
                           ![k].razorpayPaymentId = p.razorpay_payment_id,
                           ![k].razorpaySignature = p.razorpay_signature,
                           ![k].paymentStatus = "paid",
                           ![k].status = "completed",
                           ![k].writes = @ + 1]
            /\ Respond(r, "Verified")
    /\ UNCHANGED <<catalog, stock, intents, now>>

\* ------------------------------------------ POST /api/razorpay/verify-payment

\* The request arrives and waits for the authenticate middleware.
StartRzpVerify(payloads, limit) ==
    /\ MayStart(limit)
    /\ \E payload \in payloads :
         /\ payload.invoiceId = UnknownInvoiceId
         /\ reqs' = Append(reqs, [NewReq("rzpVerify", NoCustomer, <<>>, "upi")
                                    EXCEPT !.payload = payload, !.i = 0,
                                           !.pc = "check"])
    /\ UNCHANGED <<catalog, stock, sales, intents, now>>

\* The handler: a body that lacks a field is refused, the others are answered by
\* generated_signature === razorpay_signature.  No document is read or written.
RzpVerifyCheck(r) ==
    /\ reqs[r].kind = "rzpVerify"
    /\ reqs[r].pc = "check"
    /\ LET p == reqs[r].payload IN
       IF \/ p.razorpay_order_id = NoId
          \/ p.razorpay_payment_id = NoId
          \/ p.razorpay_signature = NoId
       THEN Respond(r, "ValidationError")
       ELSE LET generated_signature ==
                    RzpGeneratedSignature(p.razorpay_order_id, p.razorpay_payment_id) IN
            \E n \in StrictEqualsSteps(generated_signature, p.razorpay_signature) :
               RespondCompared(r,
                               IF generated_signature = p.razorpay_signature
                               THEN "Verified" ELSE "InvalidSignature",
                               n)
    /\ UNCHANGED <<catalog, stock, sales, intents, now>>

\* ---------------------------------------------------------- product routes

\* A name no product carries when the server starts.
NewName == "Crocin"

\* Bodies of PATCH /api/products/:id for product p: a new price, a new name, the
\* name of another product, a new stock, and all three at once.
ProductUpdates(p) ==
    {[price |-> Price(p) + 166], [name |-> NewName], [stock |-> MaxStock],
     [name |-> NewName, price |-> 2 * Price(p), stock |-> 0]} \cup
    {[name |-> Name(q)] : q \in Products \ {p}}

\* Rows of a CSV file of POST /api/products/bulk-import: a product's name with a new
\* price and a new stock.
ImportRows ==
    {[name |-> Name(p), price |-> Price(p) + 166, stock |-> MaxStock] : p \in Products}

\* Message of the error save() throws when its document is gone.
DocumentNotFoundMessage == "No document found for query"

\* The Sale collection after a product save that also rewrote the lines sold of
\* product p with the product's new name and price.
SalesAfterProductSaveRepriced(p, name, price) ==
    [k \in DOMAIN sales |->
        [sales[k] EXCEPT !.items =
            [j \in DOMAIN sales[k].items |->
                IF sales[k].items[j].productId = p
                THEN [sales[k].items[j] EXCEPT
                        !.name = name, !.price = price,
                        !.total = price * sales[k].items[j].quantity]
                ELSE sales[k].items[j]]]]

\* The Sale collection after product.save() or Product.bulkWrite() of product p:
\* the commands go to the Product collection only.
SalesAfterProductSave(p, name, price) == sales

\* PATCH /api/products/:id arrives.
StartPatchProduct(limit) ==
    /\ MayStart(limit)
    /\ \E p \in Products : \E u \in ProductUpdates(p) :
         reqs' = Append(reqs, [NewReq("patchProduct", NoCustomer, <<>>, "")
                                 EXCEPT !.id = p, !.updateData = u, !.i = 0,
                                        !.pc = "findProduct"])
    /\ UNCHANGED <<stock, catalog, sales, intents, now>>

\* Product.findById(id).
PatchFindProduct(r) ==
    /\ reqs[r].kind = "patchProduct"
    /\ reqs[r].pc = "findProduct"
    /\ LET p == reqs[r].id
           u == reqs[r].updateData IN
       IF ~catalog[p].exists
       THEN Respond(r, "NotFound")
       ELSE reqs' = [reqs EXCEPT
                       ![r].product = [name |-> catalog[p].name,
                                       price |-> catalog[p].price,
                                       stock |-> stock[p]],
                       ![r].pc = IF "name" \in DOMAIN u /\ u.name # catalog[p].name
                                 THEN "findName" ELSE "saveProduct"]
    /\ UNCHANGED <<stock, catalog, sales, intents, now>>

\* Product.findOne({ name, _id: { $ne: id } }).
PatchFindName(r) ==
    /\ reqs[r].kind = "patchProduct"
    /\ reqs[r].pc = "findName"
    /\ IF \E q \in Products \ {reqs[r].id} :
             catalog[q].exists /\ catalog[q].name = reqs[r].updateData.name
       THEN Respond(r, "Conflict")
       ELSE reqs' = [reqs EXCEPT ![r].pc = "saveProduct"]
    /\ UNCHANGED <<stock, catalog, sales, intents, now>>

\* Object.assign(product, updateData); product.save(): $set of the paths whose value
\* differs from the one read.  Whether the save of a document deleted meanwhile
\* throws or resolves depends on the version of the library.
PatchSaveProduct(r) ==
    /\ reqs[r].kind = "patchProduct"
    /\ reqs[r].pc = "saveProduct"
    /\ LET p == reqs[r].id
           u == reqs[r].updateData
           modified == {f \in DOMAIN u : u[f] # reqs[r].product[f]} IN
       IF modified = {}
       THEN /\ UNCHANGED <<stock, catalog, sales>>
            /\ Respond(r, "Ok")
       ELSE IF ~catalog[p].exists
       THEN /\ UNCHANGED <<stock, catalog, sales>>
            /\ \/ RespondCaught(r, DocumentNotFoundMessage)
               \/ Respond(r, "Ok")
       ELSE /\ stock' = IF "stock" \in modified
                        THEN [stock EXCEPT ![p] = u.stock] ELSE stock
            /\ catalog' = [catalog EXCEPT
                             ![p].name = IF "name" \in modified THEN u.name ELSE @,
                             ![p].price = IF "price" \in modified THEN u.price ELSE @]
            /\ sales' = SalesAfterProductSave(p, catalog'[p].name, catalog'[p].price)
            /\ Respond(r, "Ok")
    /\ UNCHANGED <<intents, now>>

\* DELETE /api/products/:id arrives.
StartDeleteProduct(limit) ==
    /\ MayStart(limit)
    /\ \E p \in Products :
         reqs' = Append(reqs, [NewReq("deleteProduct", NoCustomer, <<>>, "")
                                 EXCEPT !.id = p, !.i = 0, !.pc = "findProduct"])
    /\ UNCHANGED <<stock, catalog, sales, intents, now>>

\* Product.findById(id).
DeleteFindProduct(r) ==
    /\ reqs[r].kind = "deleteProduct"
    /\ reqs[r].pc = "findProduct"
    /\ IF ~catalog[reqs[r].id].exists
       THEN Respond(r, "NotFound")
       ELSE reqs' = [reqs EXCEPT ![r].pc = "deleteOne"]
    /\ UNCHANGED <<stock, catalog, sales, intents, now>>

\* Product.deleteOne({ _id: id }), answered 204.
DeleteOne(r) ==
    /\ reqs[r].kind = "deleteProduct"
    /\ reqs[r].pc = "deleteOne"
    /\ catalog' = [catalog EXCEPT ![reqs[r].id].exists = FALSE]
    /\ Respond(r, "NoContent")
    /\ UNCHANGED <<stock, sales, intents, now>>

\* POST /api/products/bulk-import arrives with a file of one row, which is parsed.
StartImport(limit) ==
    /\ MayStart(limit)
    /\ \E row \in ImportRows :
         reqs' = Append(reqs, [NewReq("bulkImport", NoCustomer, <<>>, "")
                                 EXCEPT !.updateData = row, !.i = 0,
                                        !.pc = "bulkWrite"])
    /\ UNCHANGED <<stock, catalog, sales, intents, now>>

\* Product.bulkWrite of one updateOne with upsert, filtered by name: a product of
\* that name is updated; when there is none, one is inserted under a new id, which
\* no line item of a cart names.
ImportBulkWrite(r) ==
    /\ reqs[r].kind = "bulkImport"
    /\ reqs[r].pc = "bulkWrite"
    /\ LET row == reqs[r].updateData
           matches == {p \in Products : catalog[p].exists /\ catalog[p].name = row.name} IN
       IF matches = {}
       THEN UNCHANGED <<stock, catalog, sales>>
       ELSE \E p \in matches :
              /\ stock' = [stock EXCEPT ![p] = row.stock]
              /\ catalog' = [catalog EXCEPT ![p].price = row.price]
              /\ sales' = SalesAfterProductSave(p, row.name, row.price)
    /\ Respond(r, "Ok")
    /\ UNCHANGED <<intents, now>>

\* product.save() of POST /api/invoices for a product deleted since it was read:
\* the save throws, or resolves without writing, depending on the version of the
\* library.
InvSaveDeletedProduct(r) ==
    /\ reqs[r].kind = "invoice"
    /\ reqs[r].pc = "save"
    /\ ~catalog[reqs[r].items[reqs[r].i].productId].exists
    /\ \/ RespondCaught(r, DocumentNotFoundMessage)
       \/ reqs' = [reqs EXCEPT
                     ![r].exact = FALSE,
                     ![r].doc = 0,
                     ![r].i = IF @ < Len(reqs[r].items) THEN @ + 1 ELSE 0,
                     ![r].pc = IF reqs[r].i < Len(reqs[r].items) THEN "find" ELSE "id"]
    /\ UNCHANGED <<stock, catalog, sales, intents, now>>

\* ------------------------------------------------------------ specifications

Init ==
    /\ stock = [p \in Products |-> MaxStock]
    /\ catalog = [p \in Products |->
                    [name |-> Name(p), price |-> Price(p), exists |-> TRUE]]
    /\ sales = <<>>
    /\ intents = <<>>
    /\ now = 0
    /\ reqs = <<>>

\* The checkout specification: the tills check out any carts, concurrently.
Next ==
    \/ StartInvoice(Carts, {NoCustomer, NoSuchCustomer}, ExactAmount, Cardinality(Tills))
    \/ StartSale(Carts, {NoCustomer}, Cardinality(Tills))
    \/ \E r \in DOMAIN reqs : InvFindProduct(r)
    \/ \E r \in DOMAIN reqs : InvSaveProduct(r)
    \/ \E r \in DOMAIN reqs : InvGenerateId(r)
    \/ \E r \in DOMAIN reqs : InvGatewayOk(r)
    \/ \E r \in DOMAIN reqs : InvGatewayFail(r)
    \/ \E r \in DOMAIN reqs : InvInsert(r)
    \/ \E r \in DOMAIN reqs : SaleFindProduct(r)
    \/ \E r \in DOMAIN reqs : SaleSaveProduct(r)
    \/ \E r \in DOMAIN reqs : SaleGatewayOk(r)
    \/ \E r \in DOMAIN reqs : SaleGatewayFail(r)
    \/ \E r \in DOMAIN reqs : SaleGenerateId(r)
    \/ \E r \in DOMAIN reqs : SaleInsert(r)

Spec == Init /\ [][Next]_vars

\* The settlement specification: checkouts of the small carts and confirmations.
NextSettle ==
    \/ StartInvoice(SmallCarts, {NoCustomer}, ExactAmount, MaxRequests)
    \/ StartSale(SmallCarts, {NoCustomer}, MaxRequests)
    \/ \E r \in DOMAIN reqs : InvFindProduct(r)
    \/ \E r \in DOMAIN reqs : InvSaveProduct(r)
    \/ \E r \in DOMAIN reqs : InvGenerateId(r)
    \/ \E r \in DOMAIN reqs : InvGatewayOk(r)
    \/ \E r \in DOMAIN reqs : InvGatewayFail(r)
    \/ \E r \in DOMAIN reqs : InvInsert(r)
    \/ \E r \in DOMAIN reqs : SaleFindProduct(r)
    \/ \E r \in DOMAIN reqs : SaleSaveProduct(r)
    \/ \E r \in DOMAIN reqs : SaleGatewayOk(r)
    \/ \E r \in DOMAIN reqs : SaleGatewayFail(r)
    \/ \E r \in DOMAIN reqs : SaleGenerateId(r)
    \/ \E r \in DOMAIN reqs : SaleInsert(r)
    \/ StartInvVerify(Payloads, MaxRequests)
    \/ StartSaleVerify(Payloads, MaxRequests)
    \/ \E r \in DOMAIN reqs : InvVerifyFind(r)
    \/ \E r \in DOMAIN reqs : InvVerifySave(r)
    \/ \E r \in DOMAIN reqs : SaleVerifyCheck(r)
    \/ \E r \in DOMAIN reqs : SaleVerifyUpdate(r)

SpecSettle == Init /\ [][NextSettle]_vars

\* The next await of request r's handler resolves or rejects.
HandlerStep(r) ==
    /\ r \in DOMAIN reqs
    /\ \/ InvFindProduct(r) \/ InvSaveProduct(r) \/ InvGenerateId(r)
       \/ InvGatewayOk(r) \/ InvGatewayFail(r) \/ InvInsert(r)
       \/ SaleFindProduct(r) \/ SaleSaveProduct(r) \/ SaleGatewayOk(r)
       \/ SaleGatewayFail(r) \/ SaleGenerateId(r) \/ SaleInsert(r)
       \/ InvVerifyFind(r) \/ InvVerifySave(r)
       \/ SaleVerifyCheck(r) \/ SaleVerifyUpdate(r)

\* The settlement specification with a store that answers every query and a
\* gateway whose call resolves or rejects: no handler waits forever at an await.
SpecLive ==
    Init /\ [][NextSettle]_vars /\ \A r \in 1..MaxRequests : WF_vars(HandlerStep(r))

\* The amounts specification: the tills check out the small carts, and the
\* totalAmount of a body need not be the sum of its line totals.
NextAmounts ==
    \/ StartInvoice(SmallCarts, {NoCustomer}, AnyAmount, Cardinality(Tills))
    \/ StartSale(SmallCarts, {NoCustomer}, Cardinality(Tills))
    \/ \E r \in DOMAIN reqs : InvFindProduct(r)
    \/ \E r \in DOMAIN reqs : InvSaveProduct(r)
    \/ \E r \in DOMAIN reqs : InvGenerateId(r)
    \/ \E r \in DOMAIN reqs : InvGatewayOk(r)
    \/ \E r \in DOMAIN reqs : InvGatewayFail(r)
    \/ \E r \in DOMAIN reqs : InvInsert(r)
    \/ \E r \in DOMAIN reqs : SaleFindProduct(r)
    \/ \E r \in DOMAIN reqs : SaleSaveProduct(r)
    \/ \E r \in DOMAIN reqs : SaleGatewayOk(r)
    \/ \E r \in DOMAIN reqs : SaleGatewayFail(r)
    \/ \E r \in DOMAIN reqs : SaleGenerateId(r)
    \/ \E r \in DOMAIN reqs : SaleInsert(r)

SpecAmounts == Init /\ [][NextAmounts]_vars

\* The validation specification: the tills also send carts no checkout should
\* accept.
NextValidate ==
    \/ StartInvoice(SmallCarts \cup InvalidCarts, {NoCustomer}, ExactAmount,
                    Cardinality(Tills))
    \/ StartSale(SmallCarts \cup InvalidCarts, {NoCustomer}, Cardinality(Tills))
    \/ \E r \in DOMAIN reqs : InvFindProduct(r)
    \/ \E r \in DOMAIN reqs : InvSaveProduct(r)
    \/ \E r \in DOMAIN reqs : InvGenerateId(r)
    \/ \E r \in DOMAIN reqs : InvGatewayOk(r)
    \/ \E r \in DOMAIN reqs : InvGatewayFail(r)
    \/ \E r \in DOMAIN reqs : InvInsert(r)
    \/ \E r \in DOMAIN reqs : SaleFindProduct(r)
    \/ \E r \in DOMAIN reqs : SaleSaveProduct(r)
    \/ \E r \in DOMAIN reqs : SaleGatewayOk(r)
    \/ \E r \in DOMAIN reqs : SaleGatewayFail(r)
    \/ \E r \in DOMAIN reqs : SaleGenerateId(r)
    \/ \E r \in DOMAIN reqs : SaleInsert(r)

SpecValidate == Init /\ [][NextValidate]_vars

\* The verification specification: upi and cash invoices of the small carts, and
\* confirmations on the three routes with any signature a caller can send.
NextVerify ==
    \/ StartInvoice(SmallCarts, {NoCustomer}, ExactAmount, Cardinality(Tills))
    \/ \E r \in DOMAIN reqs : InvFindProduct(r)
    \/ \E r \in DOMAIN reqs : InvSaveProduct(r)
    \/ \E r \in DOMAIN reqs : InvGenerateId(r)
    \/ \E r \in DOMAIN reqs : InvGatewayOk(r)
    \/ \E r \in DOMAIN reqs : InvGatewayFail(r)
    \/ \E r \in DOMAIN reqs : InvInsert(r)
    \/ StartInvVerify(SignaturePayloads, Cardinality(Tills))
    \/ StartSaleVerify(SignaturePayloads, Cardinality(Tills))
    \/ StartRzpVerify(SignaturePayloads \cup {UnsignedPayload},
                      Cardinality(Tills))
    \/ \E r \in DOMAIN reqs : InvVerifyFind(r)
    \/ \E r \in DOMAIN reqs : InvVerifySave(r)
    \/ \E r \in DOMAIN reqs : SaleVerifyCheck(r)
    \/ \E r \in DOMAIN reqs : SaleVerifyUpdate(r)
    \/ \E r \in DOMAIN reqs : RzpVerifyCheck(r)

SpecVerify == Init /\ [][NextVerify]_vars

\* The catalog specification: invoices of the small carts, while the products are
\* patched, deleted and imported.
NextCatalog ==
    \/ StartInvoice(SmallCarts, {NoCustomer}, ExactAmount, Cardinality(Tills))
    \/ \E r \in DOMAIN reqs : InvFindProduct(r)
    \/ \E r \in DOMAIN reqs : InvSaveProduct(r)
    \/ \E r \in DOMAIN reqs : InvSaveDeletedProduct(r)
    \/ \E r \in DOMAIN reqs : InvGenerateId(r)
    \/ \E r \in DOMAIN reqs : InvGatewayOk(r)
    \/ \E r \in DOMAIN reqs : InvGatewayFail(r)
    \/ \E r \in DOMAIN reqs : InvInsert(r)
    \/ StartPatchProduct(Cardinality(Tills))
    \/ \E r \in DOMAIN reqs : PatchFindProduct(r)
    \/ \E r \in DOMAIN reqs : PatchFindName(r)
    \/ \E r \in DOMAIN reqs : PatchSaveProduct(r)
    \/ StartDeleteProduct(Cardinality(Tills))
    \/ \E r \in DOMAIN reqs : DeleteFindProduct(r)
    \/ \E r \in DOMAIN reqs : DeleteOne(r)
    \/ StartImport(Cardinality(Tills))
    \/ \E r \in DOMAIN reqs : ImportBulkWrite(r)

SpecCatalog == Init /\ [][NextCatalog]_vars

\* The customers specification: the tills check out the small carts for a walk-in
\* customer or for a customerId no customer carries.
NextCustomers ==
    \/ StartInvoice(SmallCarts, {NoCustomer, NoSuchCustomer}, ExactAmount,
                    Cardinality(Tills))
    \/ StartSale(SmallCarts, {NoCustomer, NoSuchCustomer}, Cardinality(Tills))
    \/ \E r \in DOMAIN reqs : InvFindProduct(r)
    \/ \E r \in DOMAIN reqs : InvSaveProduct(r)
    \/ \E r \in DOMAIN reqs : InvGenerateId(r)
    \/ \E r \in DOMAIN reqs : InvGatewayOk(r)
    \/ \E r \in DOMAIN reqs : InvGatewayFail(r)
    \/ \E r \in DOMAIN reqs : InvInsert(r)
    \/ \E r \in DOMAIN reqs : SaleFindProduct(r)
    \/ \E r \in DOMAIN reqs : SaleSaveProduct(r)
    \/ \E r \in DOMAIN reqs : SaleGatewayOk(r)
    \/ \E r \in DOMAIN reqs : SaleGatewayFail(r)
    \/ \E r \in DOMAIN reqs : SaleGenerateId(r)
    \/ \E r \in DOMAIN reqs : SaleInsert(r)

SpecCustomers == Init /\ [][NextCustomers]_vars

\* ------------------------------------------------------------------ claims

CheckoutKinds == {"invoice", "sale"}
ConfirmKinds == {"invVerify", "saleVerify"}

\* Request r is answered in this step.
Answers(r) == reqs[r].pc # "done" /\ reqs'[r].pc = "done"

RECURSIVE QuantityOf(_, _)
\* Quantity of product p in a list of line items.
QuantityOf(items, p) ==
    IF items = <<>> THEN 0
    ELSE (IF Head(items).productId = p THEN Head(items).quantity ELSE 0)
         + QuantityOf(Tail(items), p)

RECURSIVE ReservedBy(_, _)
\* Quantity of product p in the first n persisted orders.
ReservedBy(n, p) ==
    IF n = 0 THEN 0 ELSE QuantityOf(sales[n].items, p) + ReservedBy(n - 1, p)

InitialStock == [p \in Products |-> MaxStock]

SalesOf(r) == {k \in DOMAIN sales : sales[k].req = r}
IntentsOf(r) == {k \in DOMAIN intents : intents[k].req = r}

\* C1 (conservation): once every checkout started has succeeded, each product's
\* stock is its initial stock minus the quantities of the persisted orders (the
\* code has no release, so R = 0).
C1_Conservation ==
    (InFlight = {} /\ \A r \in DOMAIN reqs : reqs[r].result = "Created")
        => \A p \in Products : stock[p] = MaxStock - ReservedBy(Len(sales), p)

\* C2: no product's stock is ever negative, under any interleaving of checkouts
\* through either route.
C2_StockNonNegative == \A p \in Products : stock[p] >= 0

\* C2 witness: checkouts have sold a product out.
C2_SoldOut ==
    /\ \E p \in Products : stock[p] = 0
    /\ \E r \in DOMAIN reqs : reqs[r].result = "Created"

\* C3 (exactly one success under contention): two checkouts of one line each for
\* the same product, each quantity within the stock and the two together above it,
\* and no failure of gateway or storage: exactly one is created, the other fails
\* with InsufficientStock, and the stock left is the stock minus the winner's
\* quantity.
C3_ExactlyOneSuccess ==
    \A a, b \in DOMAIN reqs :
        (/\ a < b
         /\ reqs[a].pc = "done" /\ reqs[b].pc = "done"
         /\ {reqs[a].result, reqs[b].result} \subseteq {"Created", "InsufficientStock"}
         /\ Len(reqs[a].items) = 1 /\ Len(reqs[b].items) = 1
         /\ reqs[a].items[1].productId = reqs[b].items[1].productId
         /\ reqs[a].items[1].productId \in Products
         /\ reqs[a].items[1].quantity <= MaxStock
         /\ reqs[b].items[1].quantity <= MaxStock
         /\ reqs[a].items[1].quantity + reqs[b].items[1].quantity > MaxStock)
        => \E w \in {a, b} :
              /\ reqs[w].result = "Created"
              /\ \A l \in {a, b} \ {w} : reqs[l].result = "InsufficientStock"
              /\ stock[reqs[w].items[1].productId] = MaxStock - reqs[w].items[1].quantity

\* C4 (all or nothing): a checkout that fails, with no other request having
\* started, leaves every product's stock as it was before the checkout.
C4_AllOrNothing ==
    (/\ Len(reqs) = 1
     /\ reqs[1].pc = "done"
     /\ reqs[1].result # "Created")
        => stock = InitialStock

\* C5: a checkout that finds a line item whose product is missing is answered
\* NotFound, one that finds less stock than the quantity asked is answered
\* InsufficientStock; such a checkout has created no order and opened no payment
\* intent, in that step or ever after.
C5_AbortCreatesNothing ==
    /\ [](\A r \in DOMAIN reqs :
            (reqs[r].kind \in CheckoutKinds
               /\ reqs[r].result \in {"NotFound", "InsufficientStock"})
            => SalesOf(r) = {} /\ IntentsOf(r) = {})
    /\ [][\A r \in DOMAIN reqs :
            (reqs[r].kind \in CheckoutKinds /\ reqs[r].pc = "find"
               /\ reqs'[r] # reqs[r])
            => LET item == reqs[r].items[reqs[r].i] IN
               /\ item.productId \notin Products
                    => reqs'[r].pc = "done" /\ reqs'[r].result = "NotFound"
               /\ (item.productId \in Products
                     /\ stock[item.productId] < item.quantity)
                    => reqs'[r].pc = "done" /\ reqs'[r].result = "InsufficientStock"
               /\ reqs'[r].pc = "done" => sales' = sales /\ intents' = intents]_vars

\* C5 witness: one checkout was answered NotFound at its second line, after its
\* first line took stock, and a later one InsufficientStock, while another
\* checkout could have been created.
C5_BothAborts ==
    /\ Len(reqs) = 2
    /\ reqs[1].result = "NotFound" /\ stock # InitialStock
    /\ reqs[2].result = "InsufficientStock"

\* C6 (compensation): an electronic checkout whose payment intent fails, with no
\* other request having started, returns its error with every product's stock
\* restored and no order persisted.  (Alone, a checkout is answered ServerError
\* only when razorpay.orders.create fails.)
C6_Compensation ==
    (/\ Len(reqs) = 1
     /\ reqs[1].pc = "done"
     /\ reqs[1].result = "ServerError")
        => stock = InitialStock /\ sales = <<>>

\* C7 (paid is terminal): no step changes paymentStatus, status, gateway payment
\* id or gateway signature of an order whose paymentStatus is paid.
C7_PaidIsTerminal ==
    [][\A k \in DOMAIN sales :
         sales[k].paymentStatus = "paid"
            => PaymentFields(sales'[k]) = PaymentFields(sales[k])]_vars

\* The order a confirmation in flight is about: the document the invoices handler
\* read, the document the sales handler's filter matches.
TargetOf(r) ==
    IF reqs[r].kind = "invVerify" THEN reqs[r].found
    ELSE FindOne("razorpayOrderId", reqs[r].payload.razorpay_order_id)

ValidPayload(p) ==
    verifyPaymentSignature(p.razorpay_order_id, p.razorpay_payment_id,
                           p.razorpay_signature)

\* C8 (idempotent confirmation): a confirmation that carries a valid payload, found
\* its order already completed/paid with this payload's payment id and signature
\* (the same payload was applied before) and is alone in flight writes nothing to
\* the Sale collection and is answered with the order.
C8_IdempotentConfirmation ==
    [][\A r \in DOMAIN reqs :
         (/\ reqs[r].kind \in ConfirmKinds
          /\ InFlight = {r}
          /\ Answers(r)
          /\ ValidPayload(reqs[r].payload)
          /\ TargetOf(r) # 0
          /\ reqs[r].kind = "invVerify"
                => reqs[r].read = PaymentFields(sales[TargetOf(r)])
          /\ LET o == sales[TargetOf(r)] IN
               /\ o.status = "completed" /\ o.paymentStatus = "paid"
               /\ o.razorpayPaymentId = reqs[r].payload.razorpay_payment_id
               /\ o.razorpaySignature = reqs[r].payload.razorpay_signature)
         => sales' = sales /\ reqs'[r].result = "Verified"]_vars

\* C9: a delivery to the invoices route that looked its order up while it was
\* pending, and whose save arrives after another confirmation has made the order
\* paid, writes nothing.
C9_LateDeliveryWritesNothing ==
    [][\A r \in DOMAIN reqs :
         (/\ reqs[r].kind = "invVerify"
          /\ reqs[r].pc = "saveInvoice"
          /\ Answers(r)
          /\ reqs[r].read.paymentStatus = "pending"
          /\ sales[reqs[r].found].paymentStatus = "paid")
         => sales' = sales]_vars

\* C10 (invalid signature rejection): a confirmation answered InvalidSignature
\* leaves its order, when that order was pending, with paymentStatus failed, and
\* makes no order paid.
C10_InvalidSignatureFails ==
    [][\A r \in DOMAIN reqs :
         (/\ reqs[r].kind \in ConfirmKinds
          /\ Answers(r)
          /\ reqs'[r].result = "InvalidSignature")
         => /\ (TargetOf(r) # 0 /\ sales[TargetOf(r)].paymentStatus = "pending")
                  => sales'[TargetOf(r)].paymentStatus = "failed"
            /\ \A k \in DOMAIN sales :
                  sales'[k].paymentStatus = "paid" => sales[k].paymentStatus = "paid"]_vars

\* C11 (failed is terminal): no step changes paymentStatus, status, gateway
\* payment id or gateway signature of an order whose paymentStatus is failed; in
\* particular no order moves from failed to paid.
C11_FailedIsTerminal ==
    [][\A k \in DOMAIN sales :
         sales[k].paymentStatus = "failed"
            => PaymentFields(sales'[k]) = PaymentFields(sales[k])]_vars

\* C12 (cash settlement is atomic): a cash checkout that is answered Created has
\* persisted, in that step, one order that is completed/paid and had no document
\* before; no cash order is ever stored as pending, and no payment intent is ever
\* opened for a cash checkout.
C12_CashSettlementAtomic ==
    /\ [](\A k \in DOMAIN sales :
            sales[k].paymentMethod = "cash"
               => /\ sales[k].status # "pending"
                  /\ sales[k].paymentStatus # "pending"
                  /\ IntentsOf(sales[k].req) = {})
    /\ [][\A r \in DOMAIN reqs :
            (/\ reqs[r].kind = "invoice"
             /\ reqs[r].paymentMethod = "cash"
             /\ Answers(r)
             /\ reqs'[r].result = "Created")
            => /\ SalesOf(r) = {}
               /\ IntentsOf(r) = {}
               /\ Len(sales') = Len(sales) + 1
               /\ LET o == sales'[Len(sales')] IN
                    /\ o.req = r
                    /\ o.paymentMethod = "cash"
                    /\ o.status = "completed"
                    /\ o.paymentStatus = "paid"]_vars

\* C12 witness: a cash checkout was answered Created and a confirmation has been
\* answered since.
C12_CashCreated ==
    \E k \in DOMAIN sales :
        /\ sales[k].paymentMethod = "cash"
        /\ reqs[sales[k].req].result = "Created"
        /\ \E r \in DOMAIN reqs :
              r > sales[k].req /\ reqs[r].kind \in ConfirmKinds /\ reqs[r].pc = "done"

\* C13: an electronic checkout (upi through POST /api/invoices, or POST /api/sales)
\* that is answered Created has persisted, in that step, exactly one order, and
\* no other; the order is pending/pending, carries the id of the one gateway order
\* the checkout opened, and has no gateway payment id and no signature.
C13_ElectronicCheckoutPersistsPending ==
    /\ [](\A r \in DOMAIN reqs :
            (reqs[r].kind \in CheckoutKinds /\ reqs[r].result = "Created")
               => Cardinality(SalesOf(r)) = 1)
    /\ [][\A r \in DOMAIN reqs :
            (/\ reqs[r].kind \in CheckoutKinds
             /\ reqs[r].paymentMethod = "upi"
             /\ Answers(r)
             /\ reqs'[r].result = "Created")
            => /\ SalesOf(r) = {}
               /\ Len(sales') = Len(sales) + 1
               /\ \A k \in DOMAIN sales : sales'[k] = sales[k]
               /\ Cardinality(IntentsOf(r)) = 1
               /\ LET o == sales'[Len(sales')] IN
                    /\ o.req = r
                    /\ o.status = "pending"
                    /\ o.paymentStatus = "pending"
                    /\ \A n \in IntentsOf(r) : o.razorpayOrderId = GatewayOrderId(n)
                    /\ o.razorpayPaymentId = NoId
                    /\ o.razorpaySignature = NoId]_vars

\* C13 witness: two electronic checkouts, one through each route, were answered
\* Created.
C13_BothRoutesPending ==
    \E j, k \in DOMAIN sales :
        /\ j # k
        /\ reqs[sales[j].req].kind = "invoice" /\ reqs[sales[j].req].result = "Created"
        /\ reqs[sales[k].req].kind = "sale" /\ reqs[sales[k].req].result = "Created"
        /\ sales[j].paymentStatus = "pending" /\ sales[k].paymentStatus = "pending"

\* C14: a confirmation with a valid signature whose order is pending/pending when
\* the handler writes leaves the order completed/paid with the payload's gateway
\* payment id and signature, and is answered Verified.
C14_ValidConfirmationSettles ==
    [][\A r \in DOMAIN reqs :
         (/\ reqs[r].kind \in ConfirmKinds
          /\ Answers(r)
          /\ ValidPayload(reqs[r].payload)
          /\ TargetOf(r) # 0
          /\ sales[TargetOf(r)].status = "pending"
          /\ sales[TargetOf(r)].paymentStatus = "pending")
         => /\ reqs'[r].result = "Verified"
            /\ PaymentFields(sales'[TargetOf(r)]) =
                  [status |-> "completed", paymentStatus |-> "paid",
                   razorpayPaymentId |-> reqs[r].payload.razorpay_payment_id,
                   razorpaySignature |-> reqs[r].payload.razorpay_signature]]_vars

\* C14 witness: a pending electronic order was settled by its first confirmation.
C14_Settled ==
    \E k \in DOMAIN sales :
        /\ sales[k].paymentMethod = "upi"
        /\ sales[k].writes = 1
        /\ sales[k].status = "completed" /\ sales[k].paymentStatus = "paid"
        /\ sales[k].razorpayPaymentId \in PaymentIds
        /\ sales[k].razorpaySignature # NoId
        /\ \E r \in DOMAIN reqs :
              reqs[r].kind \in ConfirmKinds /\ reqs[r].result = "Verified"

\* C15: in every reachable state no two persisted orders share an invoiceId, and no
\* step removes an order from the Sale collection or changes an order's invoiceId.
C15_UniqueAppendOnly ==
    /\ [](\A j, k \in DOMAIN sales :
            j # k => sales[j].invoiceId # sales[k].invoiceId)
    /\ [][/\ Len(sales') >= Len(sales)
          /\ \A k \in DOMAIN sales : sales'[k].invoiceId = sales[k].invoiceId]_vars

\* C15 witness: of two checkouts through POST /api/sales that opened their gateway
\* orders, one was persisted and the other, with the same invoice id, was refused
\* by the index.
C15_DuplicateRefused ==
    /\ Len(sales) = 1
    /\ \E r \in DOMAIN reqs :
          /\ reqs[r].kind = "sale"
          /\ reqs[r].result = "ServerError"
          /\ IntentsOf(r) # {}
          /\ reqs[sales[1].req].kind = "sale"

\* C16 (uniqueness on collision): a checkout that reaches its insert with an
\* invoice id a persisted order already carries is answered Conflict, and the Sale
\* collection is left as it was.
C16_CollisionIsConflict ==
    [][\A r \in DOMAIN reqs :
         (/\ reqs[r].kind \in CheckoutKinds
          /\ reqs[r].pc = "insert"
          /\ Answers(r)
          /\ \E k \in DOMAIN sales : sales[k].invoiceId = reqs[r].invoiceId)
         => reqs'[r].result = "Conflict" /\ sales' = sales]_vars

\* C17 (collision-free invoice ids): no two checkouts hold the same invoice id,
\* including two that read the clock within the same tick.  Stated for
\* POST /api/sales, whose id is built in the route itself.
C17_InvoiceIdsCollisionFree ==
    \A a, b \in DOMAIN reqs :
        (/\ a # b
         /\ reqs[a].kind = "sale" /\ reqs[b].kind = "sale"
         /\ reqs[a].invoiceId # NoInvoiceId)
        => reqs[a].invoiceId # reqs[b].invoiceId

\* C18: every persisted order's totalAmount is the sum of the totals of its line
\* items, for every request body the checkout accepted.
C18_TotalIsSumOfLines ==
    \A k \in DOMAIN sales : sales[k].totalAmount = SumTotals(sales[k].items)

\* C19: when a checkout persists its order, each save it made for a line item has
\* lowered the product's stored stock by exactly that line's quantity (the checkout
\* makes one save per line, neither none nor two).
C19_DecrementedExactlyOnce ==
    [][\A r \in DOMAIN reqs :
         (/\ reqs[r].kind \in CheckoutKinds
          /\ Answers(r)
          /\ reqs'[r].result = "Created")
         => reqs[r].exact]_vars

\* The status fields of an order differ from those its checkout stored.
Mutated(o) ==
    IF o.paymentMethod = "cash"
    THEN <<o.status, o.paymentStatus>> # <<"completed", "paid">>
    ELSE <<o.status, o.paymentStatus>> # <<"pending", "pending">>

\* C20: an order's status and paymentStatus are written at creation and changed
\* at most once more: no step changes the status fields of an order whose status
\* fields have already been changed since its creation.
C20_StatusMutatedAtMostOnce ==
    [][\A k \in DOMAIN sales :
         Mutated(sales[k])
            => /\ sales'[k].status = sales[k].status
               /\ sales'[k].paymentStatus = sales[k].paymentStatus]_vars

\* The order a confirmation names exists: by invoiceId on the invoices route, by
\* razorpay_order_id on the sales route.
NamesAnOrder(r) ==
    IF reqs[r].kind = "invVerify"
    THEN FindOne("invoiceId", reqs[r].payload.invoiceId) # 0
    ELSE FindOne("razorpayOrderId", reqs[r].payload.razorpay_order_id) # 0

\* C21: a confirmation that names no order is answered NotFound, whether its
\* signature is valid or not, and changes no order and no stock.
C21_UnknownOrderNotFound ==
    [][\A r \in DOMAIN reqs :
         (/\ reqs[r].kind \in ConfirmKinds
          /\ Answers(r)
          /\ ~NamesAnOrder(r))
         => /\ reqs'[r].result = "NotFound"
            /\ sales' = sales
            /\ stock' = stock]_vars

C23_InvalidCheckoutRejected ==
    \A r \in DOMAIN reqs :
        (reqs[r].kind \in CheckoutKinds /\ reqs[r].items \in InvalidCarts)
           => reqs[r].pc = "done" /\ reqs[r].result = "ValidationError"

\* The amount the gateway is to be sent for a totalAmount: the paise rounded to
\* the nearest whole paisa, and no less than 100 paise.
MinorUnits(totalAmount) ==
    LET paise == (totalAmount + 5) \div 10 IN
    IF paise > 100 THEN paise * 10 ELSE 1000

\* C24: whenever a checkout opens a payment intent, the amount it sends is a whole,
\* positive number of paise, equal to max(round(totalAmount * 100), 100).
C24_AmountInMinorUnits ==
    [][\A r \in DOMAIN reqs :
         (/\ reqs[r].kind \in CheckoutKinds
          /\ reqs[r].pc = "gateway"
          /\ Len(intents') = Len(intents) + 1
          /\ intents'[Len(intents')].req = r)
         => LET sent == intents'[Len(intents')].amount IN
            /\ sent > 0
            /\ sent % 10 = 0
            /\ sent = MinorUnits(reqs'[r].totalAmount)]_vars

\* C25: outside development mode, a checkout or confirmation that ends in an
\* unexpected internal error (an exception of the gateway or the store) is answered
\* with a generic failure whose body carries nothing of the error caught.
C25_NoInternalDetail ==
    NodeEnv # "development"
       => \A r \in DOMAIN reqs :
             reqs[r].result = "ServerError" => reqs[r].details = Undefined

\* C26 (every request returns): with a store that responds and a gateway call that
\* responds or is timed out, every checkout and every confirmation is eventually
\* answered.
C26_EventuallyAnswered ==
    \A r \in 1..MaxRequests :
        (r \in DOMAIN reqs) ~> (r \in DOMAIN reqs /\ reqs[r].pc = "done")

\* C26 (gateway failure): a checkout whose gateway call fails or times out is
\* answered ExternalServiceError, and the stock its lines reserved is given back.
C26_GatewayFailureCompensated ==
    [][\A r \in DOMAIN reqs :
         (reqs[r].kind \in CheckoutKinds /\ reqs[r].pc = "gateway" /\ Answers(r))
            => /\ reqs'[r].result = "ExternalServiceError"
               /\ \A p \in Products :
                    stock'[p] = stock[p] + QuantityOf(reqs[r].items, p)]_vars

\* C26: every checkout and every confirmation eventually returns a result, and a
\* gateway failure or timeout is reported as ExternalServiceError and compensated.
C26_ReturnsAndCompensates ==
    C26_EventuallyAnswered /\ C26_GatewayFailureCompensated

\* hex(HMAC_SHA256(secret, externalOrderId + "|" + externalPaymentId)) equals the
\* signature of body p.
SignatureMatches(p) ==
    p.razorpay_signature
        = Hmac(Secret, p.razorpay_order_id \o <<"|">> \o p.razorpay_payment_id)

\* C27 (one verification predicate): at each of the three verification sites (the
\* helper used by POST /api/invoices/verify-payment, POST /api/sales/verify-payment,
\* POST /api/razorpay/verify-payment) a body that carries the three gateway fields is
\* accepted if and only if its signature equals the hex HMAC-SHA256, under the
\* secret, of order id, "|" and payment id; every other one is refused as an invalid
\* signature.
C27_SamePredicate ==
    [][\A r \in DOMAIN reqs :
         LET p == reqs[r].payload IN
         /\ (reqs[r].kind = "invVerify" /\ reqs[r].pc = "saveInvoice" /\ Answers(r))
               => reqs'[r].result
                    = IF SignatureMatches(p) THEN "Verified" ELSE "InvalidSignature"
         /\ (reqs[r].kind = "saleVerify" /\ reqs[r].pc = "check" /\ reqs'[r] # reqs[r])
               => IF SignatureMatches(p)
                  THEN reqs'[r].pc = "update"
                  ELSE reqs'[r].result = "InvalidSignature"
         /\ (/\ reqs[r].kind = "rzpVerify" /\ reqs[r].pc = "check" /\ Answers(r)
             /\ p.razorpay_signature # NoId)
               => reqs'[r].result
                    = IF SignatureMatches(p) THEN "Verified" ELSE "InvalidSignature"]_vars

\* The helper has accepted the gateway's signature for an order of the shop.
C27_HelperAccepted ==
    \E r \in DOMAIN reqs :
        /\ reqs[r].kind = "invVerify"
        /\ reqs[r].result = "Verified"
        /\ \E k \in DOMAIN sales :
              /\ sales[k].razorpaySignature # NoId
              /\ sales[k].razorpaySignature
                    = RzpGeneratedSignature(sales[k].razorpayOrderId,
                                            sales[k].razorpayPaymentId)
              /\ sales[k].razorpaySignature
                    = SaleExpectedSignature(sales[k].razorpayOrderId,
                                            sales[k].razorpayPaymentId)

\* C28 (constant-time comparison): the work of a signature check does not depend on
\* the signature sent: any two confirmations whose signature was compared took the
\* same number of character comparisons, however many leading characters of the
\* signatures they sent match the expected ones.
C28_ConstantTimeComparison ==
    \A r1, r2 \in DOMAIN reqs :
        (reqs[r1].compared # NotCompared /\ reqs[r2].compared # NotCompared)
           => reqs[r1].compared = reqs[r2].compared

\* C29 (historical invoices are immutable): no step, and so no change of a product
\* (a patch of its name, price or stock, a bulk import, a deletion), changes the
\* line items (product, name, unit price, quantity, line total) or the totalAmount
\* of a persisted order, and no order leaves the collection.
C29_InvoicesImmutable ==
    [][\A k \in DOMAIN sales :
         /\ k \in DOMAIN sales'
         /\ sales'[k].items = sales[k].items
         /\ sales'[k].totalAmount = sales[k].totalAmount
         /\ sales'[k].invoiceId = sales[k].invoiceId]_vars

\* A persisted order holds a line whose product has since been renamed, repriced
\* or deleted.
C29_CatalogChangedAfterSale ==
    \E k \in DOMAIN sales : \E j \in DOMAIN sales[k].items :
        LET item == sales[k].items[j] IN
        /\ catalog[item.productId].price # item.price
        /\ catalog[item.productId].name # item.name
        /\ stock[item.productId] # MaxStock - item.quantity

\* C30 (no expiry): a pending electronic order leaves pending/pending only in a step
\* of a confirmation delivered for it; every other step, whatever else the system
\* does and however long it runs, leaves it pending/pending.  The stock it reserved is
\* not given back: the only steps that write stock are the reserving saves of
\* checkouts that have not persisted their order yet, each writing what that
\* checkout read less its own line's quantity.
C30_NoExpiry ==
    [][/\ \A k \in DOMAIN sales :
            (/\ sales[k].status = "pending"
             /\ sales[k].paymentStatus = "pending"
             /\ ~ \E r \in DOMAIN reqs :
                    /\ reqs[r].kind \in ConfirmKinds
                    /\ reqs'[r] # reqs[r]
                    /\ TargetOf(r) = k)
               => /\ k \in DOMAIN sales'
                  /\ sales'[k].status = "pending"
                  /\ sales'[k].paymentStatus = "pending"
       /\ \A p \in Products :
            stock'[p] # stock[p]
               => \E r \in DOMAIN reqs :
                     /\ reqs[r].kind \in CheckoutKinds
                     /\ reqs[r].pc = "save"
                     /\ reqs'[r] # reqs[r]
                     /\ SalesOf(r) = {}
                     /\ reqs[r].items[reqs[r].i].productId = p
                     /\ reqs[r].items[reqs[r].i].quantity >= 1
                     /\ stock'[p] = reqs[r].doc]_vars

\* A pending electronic order that no confirmation was delivered for is still
\* pending/pending, with its units off the shelf, after every request of the run,
\* confirmations for other orders among them, has been answered.
C30_StalledOrder ==
    /\ Len(reqs) = MaxRequests
    /\ InFlight = {}
    /\ \E r \in DOMAIN reqs : reqs[r].kind \in ConfirmKinds
    /\ \E k \in DOMAIN sales :
          /\ sales[k].status = "pending"
          /\ sales[k].paymentStatus = "pending"
          /\ sales[k].writes = 0
          /\ sales[k].req = 1
          /\ \A j \in DOMAIN sales[k].items :
                stock[sales[k].items[j].productId]
                    <= MaxStock - sales[k].items[j].quantity

\* C31 (confirmation binding): a persisted order's paymentStatus becomes paid only in
\* a step of a confirmation whose razorpay_order_id is the gateway order id stored
\* on that order; a payload signed for another order's gateway order id never
\* settles the invoice the request names.
C31_ConfirmationBinding ==
    [][\A k \in DOMAIN sales :
         (sales[k].paymentStatus # "paid" /\ sales'[k].paymentStatus = "paid")
            => \E r \in DOMAIN reqs :
                  /\ reqs[r].kind \in ConfirmKinds
                  /\ Answers(r)
                  /\ reqs[r].payload.razorpay_order_id = sales[k].razorpayOrderId]_vars

\* C32 (status agreement): in every reachable state every order's status is
\* completed if and only if its paymentStatus is paid.
C32_CompletedIffPaid ==
    \A k \in DOMAIN sales :
        (sales[k].status = "completed") <=> (sales[k].paymentStatus = "paid")

\* C33 (confirmations leave the inventory alone): no step of a confirmation, from
\* its arrival to its answer and whatever its outcome (verified, invalid signature,
\* not found, repeated), changes the stock of any product; a payment recorded as
\* failed leaves the units of its order reserved.
C33_ConfirmationKeepsStock ==
    [][(\/ \E r \in DOMAIN reqs :
             reqs[r].kind \in ConfirmKinds /\ reqs'[r] # reqs[r]
        \/ /\ Len(reqs') = Len(reqs) + 1
           /\ reqs'[Len(reqs')].kind \in ConfirmKinds)
          => stock' = stock]_vars

\* A confirmation has been refused for its signature, its order is recorded failed,
\* and the units of that order are still off the shelf.
C33_FailedKeepsReservation ==
    \E k \in DOMAIN sales :
        /\ sales[k].paymentStatus = "failed"
        /\ \E r \in DOMAIN reqs :
              /\ reqs[r].kind \in ConfirmKinds
              /\ reqs[r].result = "InvalidSignature"
        /\ InFlight = {}
        /\ \A p \in Products : stock[p] = MaxStock - ReservedBy(Len(sales), p)

\* C34 (cancelled is unreachable): in every reachable state every order's status is
\* pending or completed; no checkout and no confirmation stores cancelled.
C34_NeverCancelled ==
    \A k \in DOMAIN sales : sales[k].status \in {"pending", "completed"}

\* Orders stand in both statuses after a checkout and a confirmation have each
\* written status: one order was completed by a confirmation, another is pending.
C34_PendingAndCompleted ==
    /\ \E k \in DOMAIN sales : sales[k].status = "completed" /\ sales[k].writes >= 1
    /\ \E k \in DOMAIN sales : sales[k].status = "pending"
    /\ InFlight = {}

\* What POST /api/invoices/verify-payment, run alone with the gateway fields of
\* payload and the invoiceId of order k, stores in order k and answers.
InvConfirmAlone(k, payload) ==
    [stored |-> InvVerifyAssign(PaymentFields(sales[k]), payload),
     result |-> IF verifyPaymentSignature(payload.razorpay_order_id,
                                          payload.razorpay_payment_id,
                                          payload.razorpay_signature)
                THEN "Verified" ELSE "InvalidSignature"]

\* What POST /api/sales/verify-payment, run alone with the gateway fields of
\* payload, which name the gateway order of order k, stores in order k and answers.
SaleConfirmAlone(k, payload) ==
    IF SaleExpectedSignature(payload.razorpay_order_id, payload.razorpay_payment_id)
         = payload.razorpay_signature
    THEN [stored |-> [status |-> "completed", paymentStatus |-> "paid",
                      razorpayPaymentId |-> payload.razorpay_payment_id,
                      razorpaySignature |-> payload.razorpay_signature],
          result |-> "Verified"]
    ELSE [stored |-> PaymentFields(sales[k]), result |-> "InvalidSignature"]

\* C35 (the two confirmation endpoints are equivalent): for every electronic order,
\* in whatever state it is stored, and every payload that names it, with a valid or
\* an invalid signature, the invoices endpoint and the sales endpoint leave the same
\* status, paymentStatus, payment id and signature in the order and return the same
\* outcome.
C35_EndpointsEquivalent ==
    \A k \in DOMAIN sales : \A payload \in Payloads :
        (/\ sales[k].razorpayOrderId # NoId
         /\ payload.razorpay_order_id = sales[k].razorpayOrderId
         /\ payload.invoiceId = sales[k].invoiceId
         /\ FindOne("razorpayOrderId", payload.razorpay_order_id) = k
         /\ FindOne("invoiceId", payload.invoiceId) = k)
           => InvConfirmAlone(k, payload) = SaleConfirmAlone(k, payload)

\* C36 (unknown customer): a checkout that names a customerId no customer carries
\* is rejected before any product is read: its handler never gets past its arrival
\* (no product read, no stock written, no payment intent opened), and no order
\* carries that customerId.
C36_UnknownCustomerRejected ==
    /\ \A r \in DOMAIN reqs :
          (reqs[r].kind \in CheckoutKinds /\ reqs[r].customerId = NoSuchCustomer)
             => /\ reqs[r].pc = "find" /\ reqs[r].i = 1
                /\ IntentsOf(r) = {}
    /\ \A k \in DOMAIN sales : sales[k].customerId # NoSuchCustomer

====
